---------------------------- MODULE Spec2Model ----------------------------
(***************************************************************************)
(* A model of aniy's timing algebra (AnimationContainer), of the frame     *)
(* compiler (Timeline::calc_frames, frame_range) and of the per-frame      *)
(* composition (Renderer::render_frame).                                   *)
(*                                                                         *)
(* Times are Rust f32 values.  A finite f32 is kept exactly, as the record *)
(* [k |-> "num", m |-> mantissa, e |-> exponent] standing for m * 2^e with *)
(* m odd (or m = 0, e = 0) and |m| < 2^24; NaN and the infinities are the  *)
(* records with k = "nan" and k = "inf" (m = 1 or -1 is the sign).  Every  *)
(* arithmetic operator rounds to nearest, ties to even, as the hardware    *)
(* does, so a quotient such as 1.0 / 7.0 is the f32 the build computes.    *)
(***************************************************************************)
EXTENDS Integers, Sequences, FiniteSets, TLC

(***************************************************************************)
(* Bounds of the model.                                                    *)
(***************************************************************************)
\* Times of the timeline are k / 2 seconds, k in 0 .. MaxTick.
MaxTick == 4
\* Windows handed to frame_range on its own are k / 4 seconds, k in 0 .. MaxRangeTick.
MaxRangeTick == 12
\* Static objects a timeline holds at most.
MaxObjects == 2
\* Animated objects a timeline holds at most.
MaxAnimations == 2
\* ReverseAnimation wrappers a caller puts around an evaluator at most.
MaxReverse == 2

(***************************************************************************)
(* f32 arithmetic.                                                         *)
(***************************************************************************)
\* The number of mantissa bits of an f32 (the hidden bit included).
MantissaBits == 24

\* The bits one step of the long division brings down.
ChunkBits == MantissaBits \div 4

\* The integers the arithmetic below works with have at most this many bits:
\* a mantissa and one chunk.
IntBits == MantissaBits + ChunkBits

PowersOfTwo == [n \in 0 .. IntBits |-> 2 ^ n]

Pow2(n) == IF n <= 0 THEN 1 ELSE PowersOfTwo[n]

Abs(x) == IF x < 0 THEN -x ELSE x

Min(x, y) == IF x <= y THEN x ELSE y

Max(x, y) == IF x >= y THEN x ELSE y

\* The number of bits of n >= 0, looked for in the bits lo .. hi.
RECURSIVE BitLenIn(_, _, _)
BitLenIn(n, lo, hi) ==
    IF lo = hi THEN lo
    ELSE LET mid == (lo + hi) \div 2
         IN  IF n < PowersOfTwo[mid] THEN BitLenIn(n, lo, mid)
             ELSE BitLenIn(n, mid + 1, hi)

BitLen(n) == IF n <= 0 THEN 0 ELSE BitLenIn(n, 1, IntBits + 1)

NaN == [k |-> "nan", m |-> 0, e |-> 0]

Inf(sign) == [k |-> "inf", m |-> sign, e |-> 0]

Zero == [k |-> "num", m |-> 0, e |-> 0]

One == [k |-> "num", m |-> 1, e |-> 0]

\* m * 2^e, m >= 0 of at most 24 bits, in canonical form.
Canon(m, e) ==
    IF m = 0 THEN Zero
    ELSE IF m % 2 = 1 THEN [k |-> "num", m |-> m, e |-> e]
    ELSE LET z == CHOOSE z \in 1 .. IntBits :
                      m % PowersOfTwo[z] = 0 /\ m % (2 * PowersOfTwo[z]) # 0
         IN  [k |-> "num", m |-> m \div PowersOfTwo[z], e |-> e + z]

\* The quotient q of a mantissa by 2 * h, moved to its nearest neighbour by
\* the remainder r (ties to even).
NearestEven(q, r, h) == IF r > h \/ (r = h /\ q % 2 = 1) THEN q + 1 ELSE q

\* The f32 nearest to m * 2^e for m >= 0 that has s bits too many.
RoundAt(m, e, s) ==
    IF s <= 0 THEN Canon(m, e)
    ELSE Canon(NearestEven(m \div Pow2(s), m % Pow2(s), Pow2(s - 1)), e + s)

\* The f32 nearest to m * 2^e for m >= 0 (ties to even).
RoundNearestEven(m, e) == RoundAt(m, e, BitLen(m) - MantissaBits)

F32Neg(a) == [a EXCEPT !.m = -a.m]

Sign(n) == IF n < 0 THEN -1 ELSE IF n > 0 THEN 1 ELSE 0

\* The magnitude mag with the sign put on it.
Signed(sign, mag) == IF sign < 0 THEN F32Neg(mag) ELSE mag

\* The f32 nearest to m * 2^e.
F32Round(m, e) == Signed(m, RoundNearestEven(Abs(m), e))

\* `n as f32` for a small integer n.
F32FromInt(n) == F32Round(n, 0)

\* The f32 k / 2^bits.
Dyadic(k, bits) == F32Round(k, -bits)

IsNum(a) == a.k = "num"

\* The bits kept below the larger operand when two mantissas are aligned.
GuardBits == ChunkBits - 1

\* |m| * 2^e in units of 2^unit, for the smaller operand of a sum: exact when
\* it is a whole number of units, the odd number between its neighbours when
\* it is not (which rounds as the exact value does).
Aligned(m, e, unit) ==
    IF unit - e <= 0 THEN m * Pow2(e - unit)
    ELSE IF unit - e > MantissaBits THEN 1
    ELSE IF m % Pow2(unit - e) = 0 THEN m \div Pow2(unit - e)
    ELSE 2 * (m \div Pow2(unit - e + 1)) + 1

\* hi + lo in units of 2^unit, rounded.
AddUnits(hi, lo, unit) ==
    F32Round(hi.m * Pow2(hi.e - unit)
                 + Sign(lo.m) * Aligned(Abs(lo.m), lo.e, unit), unit)

\* hi + lo for hi the operand that reaches the higher bit: the sum of the
\* mantissas aligned GuardBits below hi's last bit.
AddAligned(hi, lo) ==
    AddUnits(hi, lo, hi.e + BitLen(Abs(hi.m)) - MantissaBits - GuardBits)

\* a + b, the operand that reaches the higher bit being a when aFirst.
AddOrdered(a, b, aFirst) ==
    AddAligned(IF aFirst THEN a ELSE b, IF aFirst THEN b ELSE a)

\* a + b in units of 2^lo, exactly, then rounded.
AddExact(a, b, lo) ==
    F32Round(a.m * Pow2(a.e - lo) + b.m * Pow2(b.e - lo), lo)

\* a + b for finite a and b, rounded: the exact sum when the model's integers
\* hold it, the sum of the aligned mantissas when they do not.
AddFinite(a, b) ==
    IF a.m = 0 THEN b
    ELSE IF b.m = 0 THEN a
    ELSE IF Abs(a.m) < Pow2(GuardBits) /\ Abs(b.m) < Pow2(GuardBits)
            /\ Abs(a.e - b.e) < MantissaBits
    THEN AddExact(a, b, Min(a.e, b.e))
    ELSE AddOrdered(a, b,
                    a.e + BitLen(Abs(a.m)) >= b.e + BitLen(Abs(b.m)))

\* a + b, rounded.
F32Add(a, b) ==
    IF a.k = "nan" \/ b.k = "nan" THEN NaN
    ELSE IF a.k = "inf" /\ b.k = "inf" THEN (IF a.m = b.m THEN a ELSE NaN)
    ELSE IF a.k = "inf" THEN a
    ELSE IF b.k = "inf" THEN b
    ELSE AddFinite(a, b)

\* a - b, rounded.
F32Sub(a, b) == F32Add(a, F32Neg(b))

\* a < b on f32 values (false when either is NaN).
F32Lt(a, b) ==
    IF a.k = "nan" \/ b.k = "nan" THEN FALSE
    ELSE IF a.k = "inf" THEN a.m < 0 /\ ~(b.k = "inf" /\ b.m < 0)
    ELSE IF b.k = "inf" THEN b.m > 0
    ELSE AddFinite(a, F32Neg(b)).m < 0

F32Le(a, b) ==
    IF a.k = "nan" \/ b.k = "nan" THEN FALSE ELSE ~F32Lt(b, a)

\* Half the mantissa's bits: a mantissa is two limbs of that many bits.
LimbBits == MantissaBits \div 2

\* high * 2^24 + low times 2^e, rounded, high having s bits more than two.
MulShift(high, low, e, s) ==
    IF s <= 0 THEN RoundNearestEven(high * Pow2(MantissaBits) + low, e)
    ELSE RoundNearestEven(
             2 * (high * Pow2(MantissaBits - s) + low \div Pow2(s))
                 + (IF low % Pow2(s) = 0 THEN 0 ELSE 1),
             e + s - 1)

\* (high * 2^24 + lowsum) * 2^e, rounded, lowsum of up to 25 bits.
MulWords(high, lowsum, e) ==
    MulShift(high + lowsum \div Pow2(MantissaBits),
             lowsum % Pow2(MantissaBits), e,
             BitLen(high + lowsum \div Pow2(MantissaBits)) - 2)

\* (x1 * 2^12 + x0) * (y1 * 2^12 + y0) * 2^e, rounded.
MulLimbs(x1, x0, y1, y0, e) ==
    MulWords(x1 * y1 + (x1 * y0 + x0 * y1) \div Pow2(LimbBits),
             x0 * y0 + ((x1 * y0 + x0 * y1) % Pow2(LimbBits)) * Pow2(LimbBits),
             e)

\* x * y * 2^e for mantissas x, y >= 0, rounded: the product is taken limb
\* by limb, as high * 2^24 + low.
MulFinite(x, y, e) ==
    MulLimbs(x \div Pow2(LimbBits), x % Pow2(LimbBits),
             y \div Pow2(LimbBits), y % Pow2(LimbBits), e)

\* a * b, rounded.
F32Mul(a, b) ==
    IF a.k = "nan" \/ b.k = "nan" THEN NaN
    ELSE IF a.k = "inf" \/ b.k = "inf"
         THEN (IF a.m = 0 \/ b.m = 0 THEN NaN ELSE Inf(Sign(a.m) * Sign(b.m)))
    ELSE Signed(Sign(a.m) * Sign(b.m),
                MulFinite(Abs(a.m), Abs(b.m), a.e + b.e))

\* Long division: <<quotient, remainder>> of (q * d + r) * 2^n by d.
RECURSIVE DivLoop(_, _, _, _)
DivLoop(q, r, d, n) ==
    IF n = 0 THEN <<q, r>>
    ELSE LET c == Min(n, ChunkBits)
             x == r * Pow2(c)
         IN  DivLoop(q * Pow2(c) + x \div d, x % d, d, n - c)

\* The quotient l[1] * 2^(e + 1), rounded, a bit more saying whether the
\* division left a remainder l[2].
DivRound(l, e) ==
    RoundNearestEven(2 * l[1] + (IF l[2] = 0 THEN 0 ELSE 1), e)

\* x * 2^e / d for mantissas x, d > 0, rounded, the quotient taken to n bits
\* below the point.
DivTo(x, d, e, n) == DivRound(DivLoop(0, x, d, n), e - n - 1)

\* The quotient is taken to 26 or 27 bits.
DivFinite(x, d, e) ==
    DivTo(x, d, e, MantissaBits + 2 - (BitLen(x) - BitLen(d)))

\* a / b, rounded; x / 0 is an infinity and 0 / 0 is NaN.
F32Div(a, b) ==
    IF a.k = "nan" \/ b.k = "nan" THEN NaN
    ELSE IF a.k = "inf" THEN (IF b.k = "inf" THEN NaN
                               ELSE Inf(a.m * (IF b.m < 0 THEN -1 ELSE 1)))
    ELSE IF b.k = "inf" THEN Zero
    ELSE IF b.m = 0 THEN (IF a.m = 0 THEN NaN ELSE Inf(Sign(a.m)))
    ELSE IF a.m = 0 THEN Zero
    ELSE Signed(Sign(a.m) * Sign(b.m),
                DivFinite(Abs(a.m), Abs(b.m), a.e - b.e))

\* The integer floor(m * 2^e).
FloorInt(a) ==
    IF a.e >= 0 THEN a.m * Pow2(a.e)
    ELSE IF -a.e > MantissaBits THEN (IF a.m < 0 THEN -1 ELSE 0)
    ELSE a.m \div Pow2(-a.e)

\* The integer ceil(m * 2^e).
CeilInt(a) ==
    IF a.e >= 0 THEN a.m * Pow2(a.e)
    ELSE IF -a.e > MantissaBits THEN (IF a.m > 0 THEN 1 ELSE 0)
    ELSE -((-a.m) \div Pow2(-a.e))

\* What a cast to usize saturates at (stands for usize::MAX, which is beyond
\* the integers TLC computes with; no finite time reaches it).
UsizeMax == Pow2(IntBits)

\* `x as usize`, x already integral or not: Rust's cast saturates, NaN is 0.
FloorAsUsize(a) ==
    IF a.k = "nan" THEN 0
    ELSE IF a.k = "inf" THEN (IF a.m > 0 THEN UsizeMax ELSE 0)
    ELSE Max(0, FloorInt(a))

CeilAsUsize(a) ==
    IF a.k = "nan" THEN 0
    ELSE IF a.k = "inf" THEN (IF a.m > 0 THEN UsizeMax ELSE 0)
    ELSE Max(0, CeilInt(a))

\* f32::clamp: a NaN stays a NaN.
F32Clamp(x, lo, hi) ==
    IF F32Lt(x, lo) THEN lo ELSE IF F32Lt(hi, x) THEN hi ELSE x

(***************************************************************************)
(* frame_range (lib.rs).  A Rust range start_frame..end_frame is the pair  *)
(* of its ends; its indices are RangeIndices.                              *)
(***************************************************************************)
\* frame_range with the end rounded down as the start is.
frame_range_floor_end(start, end, fps) ==
    LET frame_duration == F32Div(One, F32FromInt(fps))
        start_frame == FloorAsUsize(F32Div(start, frame_duration))
        end_frame == FloorAsUsize(F32Div(end, frame_duration))
    IN  <<start_frame, end_frame>>

frame_range(start, end, fps) ==
    LET frame_duration == F32Div(One, F32FromInt(fps))
        start_frame == FloorAsUsize(F32Div(start, frame_duration))
        end_frame == CeilAsUsize(F32Div(end, frame_duration))
    IN  <<start_frame, end_frame>>

RangeIndices(r) == r[1] .. (r[2] - 1)

(***************************************************************************)
(* Exact (rational) readings of an f32, used to state the claims: a finite *)
(* f32 a is Num(a) / Den(a).                                               *)
(***************************************************************************)
Num(a) == IF a.e >= 0 THEN a.m * Pow2(a.e) ELSE a.m

Den(a) == IF a.e >= 0 THEN 1 ELSE Pow2(-a.e)

\* i / fps < a, i / fps <= a, i / fps >= a, as exact rationals.
TimeLt(i, fps, a) == i * Den(a) < Num(a) * fps

TimeLe(i, fps, a) == i * Den(a) <= Num(a) * fps

TimeGe(i, fps, a) == i * Den(a) >= Num(a) * fps

\* floor(a * fps) and ceil(a * fps), as exact integers.
ExactFloor(a, fps) == (Num(a) * fps) \div Den(a)

ExactCeil(a, fps) == -((-(Num(a) * fps)) \div Den(a))

(***************************************************************************)
(* AnimationContainer (animations.rs).  The wrapped evaluator is a record  *)
(* [id, z, rev]: which animation it is, the z-index it answers with, and   *)
(* how many ReverseAnimation wrappers are around it.                       *)
(***************************************************************************)
Evaluator(id, z) == [id |-> id, z |-> z, rev |-> 0]

new(animation) == [animation |-> animation, start |-> Zero, end |-> One]

\* duration that sets the end to the duration itself.
duration_from_zero(self, d) == [self EXCEPT !.end = d]

duration(self, d) == [self EXCEPT !.end = F32Add(self.start, d)]

duration_keep_end(self, d) == [self EXCEPT !.start = F32Sub(self.end, d)]

delay(self, d) ==
    [self EXCEPT !.start = F32Add(self.start, d), !.end = F32Add(self.end, d)]

\* after that moves the start and keeps the end.
after_keep_end(self, other) == [self EXCEPT !.start = other.end]

after(self, other) ==
    LET d == F32Sub(self.end, self.start)
    IN  [self EXCEPT !.start = other.end, !.end = F32Add(other.end, d)]

\* start_with that keeps the duration, moving the end along.
start_with_keep_duration(self, other) ==
    [self EXCEPT !.start = other.start,
                 !.end = F32Add(other.start, F32Sub(self.end, self.start))]

start_with(self, other) == [self EXCEPT !.start = other.start]

end_with(self, other) == [self EXCEPT !.end = other.end]

synchronize(self, other) ==
    [self EXCEPT !.start = other.start, !.end = other.end]

\* reverse that hands the container back as it was.
reverse_nothing(self) == self

\* reverse: the evaluator is wrapped in one more ReverseAnimation.
reverse(self) == [self EXCEPT !.animation.rev = @ + 1]

(***************************************************************************)
(* AnimatedObject (animations.rs): the record [object, enter, exit] of the *)
(* steady object and the two containers.                                   *)
(***************************************************************************)
\* lifetime that moves the exit's start and keeps its end.
lifetime_keep_exit_end(self, d) ==
    [self EXCEPT !.exit.start = F32Add(self.enter.end, d)]

\* exit.start is moved first, then exit.duration(exit_duration) sets the end.
lifetime(self, d) ==
    [self EXCEPT !.exit =
        duration([self.exit EXCEPT !.start = F32Add(self.enter.end, d)],
                 F32Sub(self.exit.end, self.exit.start))]

(***************************************************************************)
(* Animation::animate of the wrapped evaluator.  What it answers is the    *)
(* pair <<z-index, node>>; the node of an animation is                     *)
(* <<"animation", id, progress>>, so the progress it was asked for shows.  *)
(* ReverseAnimation::animate asks the animation it wraps for 1 - progress. *)
(***************************************************************************)
RECURSIVE animation_animate(_, _)
animation_animate(animation, progress) ==
    IF animation.rev = 0
    THEN <<animation.z, <<"animation", animation.id, progress>>>>
    ELSE animation_animate([animation EXCEPT !.rev = @ - 1],
                           F32Sub(One, progress))

\* progress_at without the clamp.
progress_unclamped(self, time) ==
    F32Div(F32Sub(time, self.start), F32Sub(self.end, self.start))

\* The progress AnimationContainer::animate computes for a frame time.
progress_at(self, time) ==
    F32Clamp(F32Div(F32Sub(time, self.start), F32Sub(self.end, self.start)),
             Zero, One)

\* AnimationContainer::animate.
animate(self, time) == animation_animate(self.animation, progress_at(self, time))

(***************************************************************************)
(* Objects, the Timeline and its frames (lib.rs).  An object is [id, z];   *)
(* Object::render answers <<z, <<"object", id>>>>.                         *)
(***************************************************************************)
render(object) == <<object.z, <<"object", object.id>>>>

EmptyTimeline == [objects |-> <<>>, animations |-> <<>>]

add_object(timeline, object) ==
    [timeline EXCEPT !.objects = Append(@, render(object))]

add_animation(timeline, animated_object) ==
    [timeline EXCEPT !.animations = Append(@, animated_object)]

\* The extra frames calc_frames adds after the last exit.
PadFrames == 10

\* max_by(partial_cmp) over the exits' ends, unwrap_or(0.0).
RECURSIVE MaxExitEnd(_, _, _)
MaxExitEnd(animations, k, best) ==
    IF k > Len(animations) THEN best
    ELSE MaxExitEnd(animations, k + 1,
                    IF F32Lt(animations[k].exit.end, best)
                    THEN best ELSE animations[k].exit.end)

\* end_time that takes the last animated object's exit.
end_time_of_last(timeline) ==
    IF timeline.animations = <<>> THEN Zero
    ELSE timeline.animations[Len(timeline.animations)].exit.end

end_time_of(timeline) ==
    IF timeline.animations = <<>> THEN Zero
    ELSE MaxExitEnd(timeline.animations, 2, timeline.animations[1].exit.end)

frame_count_of(timeline, fps) ==
    CeilAsUsize(F32Mul(end_time_of(timeline), F32FromInt(fps))) + PadFrames

\* The frames as the first loop of calc_frames leaves them; frame_index i is
\* element i + 1.
BlankFrames(timeline, fps) ==
    LET frame_duration == F32Div(One, F32FromInt(fps))
    IN  [n \in 1 .. frame_count_of(timeline, fps) |->
            [time |-> F32Mul(F32FromInt(n - 1), frame_duration),
             objects |-> timeline.objects,
             animations |-> <<>>]]

\* frames[index].animations.push(animation) for every index of the range.
PushAnimation(frames, range, animation) ==
    [n \in DOMAIN frames |->
        IF (n - 1) \in RangeIndices(range)
        THEN [frames[n] EXCEPT !.animations = Append(@, animation)]
        ELSE frames[n]]

\* frames[index].objects.push(object) for every index of the range.
PushObject(frames, range, object) ==
    [n \in DOMAIN frames |->
        IF (n - 1) \in RangeIndices(range)
        THEN [frames[n] EXCEPT !.objects = Append(@, object)]
        ELSE frames[n]]

\* Whether frames[index] panics for some index of the range, frames having
\* frame_count elements.
OutOfBounds(frame_count, range) ==
    \E index \in RangeIndices(range) : index >= frame_count

\* steady_range that starts the object with the enter animation.
steady_range_from_enter_start(animated_object, fps) ==
    frame_range(animated_object.enter.start, animated_object.exit.start, fps)

\* enter_range that keeps the enter animation until the exit starts.
enter_range_until_exit(animated_object, fps) ==
    frame_range(animated_object.enter.start, animated_object.exit.start, fps)

enter_range(animated_object, fps) ==
    frame_range(animated_object.enter.start, animated_object.enter.end, fps)

exit_range(animated_object, fps) ==
    frame_range(animated_object.exit.start, animated_object.exit.end, fps)

steady_range(animated_object, fps) ==
    frame_range(animated_object.enter.end, animated_object.exit.start, fps)

\* One turn of the second loop of calc_frames.
Resolve(frames, animated_object, fps) ==
    PushObject(
        PushAnimation(
            PushAnimation(frames, enter_range(animated_object, fps),
                          animated_object.enter),
            exit_range(animated_object, fps), animated_object.exit),
        steady_range(animated_object, fps), render(animated_object.object))

Panics(frame_count, animated_object, fps) ==
    \/ OutOfBounds(frame_count, enter_range(animated_object, fps))
    \/ OutOfBounds(frame_count, exit_range(animated_object, fps))
    \/ OutOfBounds(frame_count, steady_range(animated_object, fps))

\* What calc_frames comes to: its frames, or a panic (an index out of bounds).
Frames(frames) == [panicked |-> FALSE, frames |-> frames]

Panicked == [panicked |-> TRUE, frames |-> <<>>]

\* The second loop of calc_frames from animated object k on.
RECURSIVE ResolveFrom(_, _, _, _, _)
ResolveFrom(frames, frame_count, animations, k, fps) ==
    IF k > Len(animations) THEN Frames(frames)
    ELSE IF Panics(frame_count, animations[k], fps) THEN Panicked
    ELSE ResolveFrom(Resolve(frames, animations[k], fps), frame_count,
                     animations, k + 1, fps)

calc_frames(timeline, fps) ==
    ResolveFrom(BlankFrames(timeline, fps), frame_count_of(timeline, fps),
                timeline.animations, 1, fps)

(***************************************************************************)
(* Renderer::render_frame: the frame's objects, then what each of its      *)
(* animations answers at the frame's time, sorted by z-index with the      *)
(* stable sort_by_key, added to the document in that order.  The document  *)
(* is the sequence of its children, each with the key it was sorted by.    *)
(***************************************************************************)
RECURSIVE Animated(_, _, _)
Animated(animations, time, k) ==
    IF k > Len(animations) THEN <<>>
    ELSE <<animate(animations[k], time)>> \o Animated(animations, time, k + 1)

\* x put behind the last element of a sorted sequence whose key is <= x's.
RECURSIVE InsertByKey(_, _)
InsertByKey(sorted, x) ==
    IF sorted = <<>> THEN <<x>>
    ELSE IF sorted[Len(sorted)][1] <= x[1] THEN Append(sorted, x)
    ELSE Append(InsertByKey(SubSeq(sorted, 1, Len(sorted) - 1), x),
                sorted[Len(sorted)])

\* sort_by_key that puts x before the elements of its own key.
RECURSIVE InsertBeforeKey(_, _)
InsertBeforeKey(sorted, x) ==
    IF sorted = <<>> THEN <<x>>
    ELSE IF sorted[Len(sorted)][1] < x[1] THEN Append(sorted, x)
    ELSE Append(InsertBeforeKey(SubSeq(sorted, 1, Len(sorted) - 1), x),
                sorted[Len(sorted)])

RECURSIVE SortFrom(_, _, _)
SortFrom(objects, k, sorted) ==
    IF k > Len(objects) THEN sorted
    ELSE SortFrom(objects, k + 1, InsertByKey(sorted, objects[k]))

RECURSIVE UnstableSortFrom(_, _, _)
UnstableSortFrom(objects, k, sorted) ==
    IF k > Len(objects) THEN sorted
    ELSE UnstableSortFrom(objects, k + 1, InsertBeforeKey(sorted, objects[k]))

\* A sort by z-index that is not stable.
sort_unstable_by_key(objects) == UnstableSortFrom(objects, 1, <<>>)

\* objects.sort_by_key(|(z, _)| *z): a stable sort.
sort_by_key(objects) == SortFrom(objects, 1, <<>>)

\* The objects of a frame before they are sorted.
Unsorted(frame) == frame.objects \o Animated(frame.animations, frame.time, 1)

render_frame(frame) == sort_by_key(Unsorted(frame))

(***************************************************************************)
(* Polygons and PolygonMorph (animations.rs).  A point is a pair of f32    *)
(* values and a polygon's points are a sequence of points.  The polygons   *)
(* of the model have whole coordinates.                                    *)
(***************************************************************************)
Point(x, y) == <<F32FromInt(x), F32FromInt(y)>>

\* f32::min of two values that are not NaN.
F32Min(a, b) == IF F32Lt(b, a) THEN b ELSE a

\* top_left: the fold of min over both coordinates, from (inf, inf).
RECURSIVE top_left_from(_, _, _)
top_left_from(points, k, acc) ==
    IF k > Len(points) THEN acc
    ELSE top_left_from(points, k + 1,
                       <<F32Min(acc[1], points[k][1]),
                         F32Min(acc[2], points[k][2])>>)

top_left(points) == top_left_from(points, 1, <<Inf(1), Inf(1)>>)

translate_point(point, x, y) == <<F32Add(point[1], x), F32Add(point[2], y)>>

translate_points(points, x, y) ==
    [k \in DOMAIN points |-> translate_point(points[k], x, y)]

\* The square of distance(a, b), as f32: distance is its square root.  The
\* square root keeps the order of its arguments, and it keeps the whole
\* squares of the model apart, so a minimum over the distances is the
\* minimum over their squares.
distance_squared(a, b) ==
    F32Add(F32Mul(F32Sub(a[1], b[1]), F32Sub(a[1], b[1])),
           F32Mul(F32Sub(a[2], b[2]), F32Sub(a[2], b[2])))

\* min_by answers the first of the elements that are equally minimum: the
\* index, from k on, of the first point of segment nearest to point.
RECURSIVE closest_from(_, _, _, _)
closest_from(point, segment, k, best) ==
    IF k > Len(segment) THEN best
    ELSE closest_from(point, segment, k + 1,
                      IF F32Lt(distance_squared(point, segment[k]),
                               distance_squared(point, segment[best]))
                      THEN k ELSE best)

\* closest_point, for a segment that is not empty: the index of the point.
closest_point(point, segment) == closest_from(point, segment, 2, 1)

\* Vec::remove.
Remove(s, i) == [k \in 1 .. Len(s) - 1 |-> IF k < i THEN s[k] ELSE s[k + 1]]

\* The pool of the first loop when a claimed point is left in it.
claim_and_keep(pool, i) == pool

\* long_trans.remove(i): a claimed point leaves the pool.
claim(pool, i) == Remove(pool, i)

\* The second elements of a sequence of pairs.
Seconds(s) == [k \in DOMAIN s |-> s[k][2]]

Firsts(s) == [k \in DOMAIN s |-> s[k][1]]

\* The first loop of create_missing_points from point k of short_trans on:
\* <<static_points, what is left of long_trans>>.
RECURSIVE AnchorsFrom(_, _, _, _)
AnchorsFrom(short_trans, k, long_trans, static_points) ==
    IF k > Len(short_trans) THEN <<static_points, long_trans>>
    ELSE LET i == closest_point(short_trans[k], Seconds(long_trans))
         IN  AnchorsFrom(short_trans, k + 1, claim(long_trans, i),
                         Append(static_points,
                                <<long_trans[i][1], short_trans[k]>>))

\* enumerate(): every point with its index, which counts from 0.
Enumerated(points) == [k \in DOMAIN points |-> <<k - 1, points[k]>>]

\* point_pairs: every point of short_trans with the next one, cyclically.
point_pairs_of(short_trans) ==
    [i \in DOMAIN short_trans |->
        <<short_trans[i], short_trans[(i % Len(short_trans)) + 1]>>]

\* The whole number an f32 of the model's polygons is.
Whole(a) == FloorInt(a)

\* The dot product of point - line_a and line_b - line_a.
DotAlong(line_a, line_b, point) ==
    (Whole(point[1]) - Whole(line_a[1])) * (Whole(line_b[1]) - Whole(line_a[1]))
        + (Whole(point[2]) - Whole(line_a[2]))
              * (Whole(line_b[2]) - Whole(line_a[2]))

\* The square of the distance of two points with whole coordinates.
WholeSquare(a, b) ==
    (Whole(a[1]) - Whole(b[1])) * (Whole(a[1]) - Whole(b[1]))
        + (Whole(a[2]) - Whole(b[2])) * (Whole(a[2]) - Whole(b[2]))

\* How far along the line, in WholeSquare(line_a, line_b)-ths of it, the
\* point falls: rotated_point.0 clamped to the line's length.
FallenAlong(line_a, line_b, point) ==
    Max(0, Min(DotAlong(line_a, line_b, point), WholeSquare(line_a, line_b)))

\* x / d, for a line of no length 0.
Part(x, d) == IF d = 0 THEN Zero ELSE F32Div(F32FromInt(x), F32FromInt(d))

\* cast_to_line: <<fallen_point, distance>>.  The code turns the line onto
\* the x axis with atan2, sin and cos, clamps the point's x to the line and
\* turns it back; what it computes is, up to the rounding of those f32
\* functions, the point of the segment nearest to point and its distance.
\* Here the fallen point is the f32 nearest to that point, and the distance is
\* the exact square of it, the fraction <<numerator, denominator>>.
cast_to_line(line_a, line_b, point) ==
    LET d == WholeSquare(line_a, line_b)
        n == FallenAlong(line_a, line_b, point)
    IN  << <<F32Add(Part(n * (Whole(line_b[1]) - Whole(line_a[1])), d),
                    line_a[1]),
             F32Add(Part(n * (Whole(line_b[2]) - Whole(line_a[2])), d),
                    line_a[2])>>,
           IF d = 0 THEN <<WholeSquare(line_a, point), 1>>
           ELSE <<WholeSquare(line_a, point) * d
                      - 2 * n * DotAlong(line_a, line_b, point) + n * n,
                  d>> >>

\* u < v for fractions with positive denominators.
LessFraction(u, v) == u[1] * v[2] < v[1] * u[2]

\* The lines of point_pairs a point is nearest to.  When it is as near to
\* two lines, the rounding of atan2, sin and cos decides which of them min_by
\* answers: either may be.
NearestLines(point_pairs, point) ==
    {i \in DOMAIN point_pairs :
        \A j \in DOMAIN point_pairs :
            ~LessFraction(
                cast_to_line(point_pairs[j][1], point_pairs[j][2], point)[2],
                cast_to_line(point_pairs[i][1], point_pairs[i][2], point)[2])}

\* segments[i] of the second loop, from element k of long_trans on, nearest[k]
\* being the line min_by answered for element k.
RECURSIVE SegmentFrom(_, _, _, _, _)
SegmentFrom(long_trans, nearest, point_pairs, i, k) ==
    IF k > Len(long_trans) THEN <<>>
    ELSE (IF nearest[k] = i
          THEN << <<long_trans[k][1],
                    cast_to_line(point_pairs[i][1], point_pairs[i][2],
                                 long_trans[k][2])[1]>> >>
          ELSE <<>>)
             \o SegmentFrom(long_trans, nearest, point_pairs, i, k + 1)

\* What the third loop pushes for a line when it leaves the segment out.
pushed_without_segment(static_point, segment) == <<static_point>>

\* points.push(static_points[i]); points.extend(segment).
pushed(static_point, segment) == <<static_point>> \o segment

\* The third loop of create_missing_points from line i on.
RECURSIVE PointsFrom(_, _, _, _, _)
PointsFrom(static_points, long_trans, nearest, point_pairs, i) ==
    IF i > Len(static_points) THEN <<>>
    ELSE pushed(static_points[i],
                SegmentFrom(long_trans, nearest, point_pairs, i, 1))
             \o PointsFrom(static_points, long_trans, nearest, point_pairs,
                           i + 1)

\* short_trans and what the first loop makes of long_trans.
ShortTrans(short) ==
    translate_points(short, F32Neg(top_left(short)[1]),
                     F32Neg(top_left(short)[2]))

LongTrans(longer) ==
    Enumerated(translate_points(longer, F32Neg(top_left(longer)[1]),
                                F32Neg(top_left(longer)[2])))

Anchored(short, longer) == AnchorsFrom(ShortTrans(short), 1, LongTrans(longer), <<>>)

\* The points of long_trans the first loop leaves to the second.
Unclaimed(short, longer) == Anchored(short, longer)[2]

\* Whether min_by(..).unwrap() of the second loop panics: it does when there
\* is a point left and no line to cast it to.
UnwrapsNone(short, longer) == short = <<>> /\ Unclaimed(short, longer) # <<>>

\* What min_by may answer for each point the second loop goes through.
NearestChoices(short, longer) ==
    {nearest \in [DOMAIN Unclaimed(short, longer) -> DOMAIN short] :
        \A k \in DOMAIN nearest :
            nearest[k] \in NearestLines(point_pairs_of(ShortTrans(short)),
                                        Unclaimed(short, longer)[k][2])}

\* What min_by answers in the second loop: nothing when its unwrap panics.
Answers(short, longer) ==
    IF UnwrapsNone(short, longer) THEN {<<>>}
    ELSE NearestChoices(short, longer)

\* The vector points of create_missing_points: the index of a point of
\* longer with the point of the translated short polygon it is paired with.
PairedPoints(short, longer, nearest) ==
    PointsFrom(Anchored(short, longer)[1], Unclaimed(short, longer), nearest,
               point_pairs_of(ShortTrans(short)), 1)

\* *longer and *short as create_missing_points leaves them, with points.
Rewritten(short, longer, points) ==
    [longer |-> [k \in DOMAIN points |-> longer[points[k][1] + 1]],
     short |-> translate_points(Seconds(points), top_left(short)[1],
                                top_left(short)[2]),
     points |-> points]

create_missing_points(short, longer, nearest) ==
    Rewritten(short, longer, PairedPoints(short, longer, nearest))

\* PolygonMorph::new came to a morph, or panicked.  indices: for every pair
\* of points, the index in the longer polygon of the point taken from it
\* (the identity when no point was made up).
Morph(start_polygon, end_polygon, start_points, end_points, indices) ==
    [panicked |-> FALSE,
     start_polygon |-> start_polygon, end_polygon |-> end_polygon,
     start_points |-> start_points, end_points |-> end_points,
     indices |-> indices]

MorphPanicked == [panicked |-> TRUE]

\* The Less and the Greater arm of PolygonMorph::new.
MorphFromShorter(start_polygon, end_polygon, made) ==
    Morph(start_polygon, end_polygon, made.short, made.longer,
          Firsts(made.points))

MorphFromLonger(start_polygon, end_polygon, made) ==
    Morph(start_polygon, end_polygon, made.longer, made.short,
          Firsts(made.points))

\* The shorter and the longer of two point lists (the first and the second
\* when they are as long).
ShorterOf(a, b) == IF Len(a) <= Len(b) THEN a ELSE b

LongerOf(a, b) == IF Len(a) <= Len(b) THEN b ELSE a

\* PolygonMorph::new; a polygon is the record [points, z].
PolygonMorph_new(start_polygon, end_polygon, nearest) ==
    IF Len(start_polygon.points) = Len(end_polygon.points)
    THEN Morph(start_polygon, end_polygon, start_polygon.points,
               end_polygon.points,
               [k \in DOMAIN end_polygon.points |-> k - 1])
    ELSE IF UnwrapsNone(ShorterOf(start_polygon.points, end_polygon.points),
                        LongerOf(start_polygon.points, end_polygon.points))
    THEN MorphPanicked
    ELSE IF Len(start_polygon.points) < Len(end_polygon.points)
    THEN MorphFromShorter(start_polygon, end_polygon,
             create_missing_points(start_polygon.points, end_polygon.points,
                                   nearest))
    ELSE MorphFromLonger(start_polygon, end_polygon,
             create_missing_points(end_polygon.points, start_polygon.points,
                                   nearest))

\* start + (end - start) * progress, on one coordinate.
Interpolated(start, end, progress) ==
    F32Add(start, F32Mul(F32Sub(end, start), progress))

\* Color (lib.rs): the channels <<r, g, b, a>>, each a u8.
Color(r, g, b, a) == <<r, g, b, a>>

\* Color::rgb.
rgb(r, g, b) == Color(r, g, b, 255)

\* `x as u8`: the cast drops the fraction, saturates at 0 and 255, and makes
\* 0 of NaN.
AsU8(x) ==
    IF x.k = "nan" THEN 0
    ELSE IF x.k = "inf" THEN (IF x.m > 0 THEN 255 ELSE 0)
    ELSE Max(0, Min(255, FloorInt(x)))

\* One channel of Color::morph.
channel_morph(start, end, progress) ==
    AsU8(Interpolated(F32FromInt(start), F32FromInt(end), progress))

\* Color::morph.
Color_morph(self, other, progress) ==
    [c \in 1 .. 4 |-> channel_morph(self[c], other[c], progress)]

\* Polygon::new(points) with a z-index: the other fields are those of
\* Polygon::default.
Polygon(points, z) ==
    [points |-> points, z |-> z,
     fill_color |-> rgb(255, 255, 255),
     outline_color |-> rgb(100, 100, 100),
     stroke_width |-> F32FromInt(10)]

\* Polygon::fill and Polygon::outline.
fill(self, color) == [self EXCEPT !.fill_color = color]

outline(self, color) == [self EXCEPT !.outline_color = color]

\* Polygon::render: <<z-index, the points, the attributes stroke-width, fill
\* and stroke of the node>>.
Polygon_render(self) ==
    <<self.z, self.points,
      [stroke_width |-> self.stroke_width, fill |-> self.fill_color,
       stroke |-> self.outline_color]>>

\* The points of PolygonMorph::animate: the zip of start_points and
\* end_points.
MorphedPoints(self, progress) ==
    [k \in 1 .. Min(Len(self.start_points), Len(self.end_points)) |->
        <<Interpolated(self.start_points[k][1], self.end_points[k][1],
                       progress),
          Interpolated(self.start_points[k][2], self.end_points[k][2],
                       progress)>>]

\* PolygonMorph::animate: the render of Polygon::new(points) with the fill
\* and the outline colour morphed.
PolygonMorph_animate(self, progress) ==
    Polygon_render(
        outline(fill(Polygon(MorphedPoints(self, progress), 0),
                     Color_morph(self.start_polygon.fill_color,
                                 self.end_polygon.fill_color, progress)),
                Color_morph(self.start_polygon.outline_color,
                            self.end_polygon.outline_color, progress)))

(***************************************************************************)
(* PolygonDraw (animations.rs).  What animate answers is the record of a  *)
(* node: the polygon's own render, [kind |-> "polygon", z, points], or the *)
(* group of the polygon of the points drawn so far, with a transparent     *)
(* outline, and the open polyline through the same points,                 *)
(* [kind |-> "group", z, polygon, polyline]; or a panic.                   *)
(***************************************************************************)
\* (polygon.points.len() as f32 * progress).floor() as usize; the cast of a
\* negative value is 0.
done_amount(polygon, progress) ==
    Max(0, FloorInt(F32Mul(F32FromInt(Len(polygon.points)), progress)))

\* segment_progress without the vertices done taken off.
segment_progress_whole(progress, len, done) ==
    F32Mul(progress, F32FromInt(len))

\* progress * polygon.points.len() as f32 - done_amount as f32.
segment_progress(progress, len, done) ==
    F32Sub(F32Mul(progress, F32FromInt(len)), F32FromInt(done))

\* The point pushed last: (x, y) between start and end.
PartialPoint(start, end, along) ==
    <<Interpolated(start[1], end[1], along),
      Interpolated(start[2], end[2], along)>>

\* points: polygon.points[..done_amount + 1] and the point between
\* polygon.points[done_amount] and the next one, the first after the last.
DrawnPoints(points, progress, done) ==
    Append(SubSeq(points, 1, done + 1),
           PartialPoint(points[done + 1],
                        points[((done + 1) % Len(points)) + 1],
                        segment_progress(progress, Len(points), done)))

DrawPanicked == [kind |-> "panic"]

DrawnGroup(z, points) ==
    [kind |-> "group", z |-> z, polygon |-> points, polyline |-> points]

\* animate once done_amount is known; the slice [..done_amount + 1] panics
\* past the end of the points.
DrawDone(polygon, progress, done) ==
    IF done = Len(polygon.points)
    THEN [kind |-> "polygon", z |-> polygon.z, points |-> polygon.points]
    ELSE IF done + 1 > Len(polygon.points) THEN DrawPanicked
    ELSE DrawnGroup(polygon.z, DrawnPoints(polygon.points, progress, done))

PolygonDraw_animate(self, progress) ==
    DrawDone(self, progress, done_amount(self, progress))

(***************************************************************************)
(* State.                                                                  *)
(*                                                                         *)
(* timeline, fps: the Renderer's timeline and frame rate.  frames: what    *)
(* calc_frames made of it.  docs: the document render_frame made of each   *)
(* frame.  pc: where Renderer's caller is: "build" (adding to the          *)
(* timeline), "frames" (render has called calc_frames), "panic"            *)
(* (calc_frames panicked), "rendered" (every frame has its document).      *)
(*                                                                         *)
(* container, cprev, cop, carg, cother, cnode: a container a caller builds *)
(* with the combinators: the value it holds, the value before the last     *)
(* call, the name of that call, its f32 argument (Zero when it has none),  *)
(* the container it borrowed (the container itself when it borrowed none)  *)
(* and what the call answered when it was animate (NoNode when not).      *)
(*                                                                         *)
(* rstart, rend, rfps, rout: one call of frame_range on its own.           *)
(*                                                                         *)
(* animated, aprev, aop, aarg: an AnimatedObject a caller has built, the   *)
(* value before the last call made on it, the name of that call and its    *)
(* f32 argument.                                                           *)
(*                                                                         *)
(* mstart, mend, morph, mprogress, mout: two polygons, the PolygonMorph    *)
(* made of them (or its panic), and the progress and the answer of the     *)
(* last call of its animate.                                               *)
(*                                                                         *)
(* dpolygon, dprogress, dout: the polygon of a PolygonDraw, and the        *)
(* progress and the answer of the last call of its animate.                *)
(*                                                                         *)
(* working, slots, encoded: the render of the compiled frames by parallel  *)
(* workers: the indexes of the frames a worker is rendering, the results   *)
(* written so far into the vector collect is filling (position |-> <<frame *)
(* index, document>>), and the results handed to the encoder so far.       *)
(***************************************************************************)
VARIABLES timeline, fps, frames, docs, pc,
          container, cprev, cop, carg, cother, cnode,
          rstart, rend, rfps, rout,
          animated, aprev, aop, aarg,
          mstart, mend, morph, mprogress, mout,
          dpolygon, dprogress, dout,
          working, slots, encoded

timelineVars == <<timeline, fps, frames, docs, pc>>

containerVars == <<container, cprev, cop, carg, cother, cnode>>

rangeVars == <<rstart, rend, rfps, rout>>

entityVars == <<animated, aprev, aop, aarg>>

morphVars == <<mstart, mend, morph, mprogress, mout>>

drawVars == <<dpolygon, dprogress, dout>>

renderVars == <<working, slots, encoded>>

vars ==
    <<timelineVars, containerVars, rangeVars, entityVars, morphVars, drawVars,
      renderVars>>

\* What the caller of the Renderer, the caller of the combinators, the call
\* of frame_range and the caller of lifetime leave alone.
exceptTimeline ==
    <<containerVars, rangeVars, entityVars, morphVars, drawVars, renderVars>>

exceptContainer ==
    <<timelineVars, rangeVars, entityVars, morphVars, drawVars, renderVars>>

exceptRange ==
    <<timelineVars, containerVars, entityVars, morphVars, drawVars, renderVars>>

exceptEntity ==
    <<timelineVars, containerVars, rangeVars, morphVars, drawVars, renderVars>>

exceptMorph ==
    <<timelineVars, containerVars, rangeVars, entityVars, drawVars, renderVars>>

exceptDraw ==
    <<timelineVars, containerVars, rangeVars, entityVars, morphVars, renderVars>>

\* What the workers and the encoder of render leave alone, the timeline's
\* variables apart.
exceptRender ==
    <<containerVars, rangeVars, entityVars, morphVars, drawVars>>

\* The times of a timeline: 0, 0.5, ..., MaxTick / 2.
Times == {Dyadic(k, 1) : k \in 0 .. MaxTick}

\* The evaluator of the container the caller builds.
TheAnimation == Evaluator(0, 0)

\* Containers a caller may have built elsewhere and lends to a combinator.
Containers ==
    {[animation |-> Evaluator(1, 0), start |-> s, end |-> e] : s, e \in Times}

\* No call of animate made yet.
NoNode == <<>>

ContainerIdle ==
    /\ container = new(TheAnimation)
    /\ cprev = new(TheAnimation)
    /\ cop = "new"
    /\ carg = Zero
    /\ cother = new(TheAnimation)
    /\ cnode = NoNode

\* Renderer::new: an empty timeline at 60 frames a second.
DefaultFps == 60

TimelineIdle ==
    /\ timeline = EmptyTimeline
    /\ fps = DefaultFps
    /\ frames = <<>>
    /\ docs = <<>>
    /\ pc = "build"

\* The windows' ends frame_range is tried on: 0, 0.25, ..., MaxRangeTick / 4.
RangeTimes == {Dyadic(k, 2) : k \in 0 .. MaxRangeTick}

\* The frame rates it is tried on; 60 is Renderer::new's default.
RangeFps == {1, 2, 3, 7, 41, 60, 61}

\* No call of frame_range made yet.
NoRange == <<>>

RangeIdle == rstart = Zero /\ rend = Zero /\ rfps = 1 /\ rout = NoRange

\* No AnimatedObject built yet.
NoEntity == <<>>

EntityIdle ==
    animated = NoEntity /\ aprev = NoEntity /\ aop = "none" /\ aarg = Zero

\* No PolygonMorph made yet, and no answer of animate.
NoMorph == <<>>

NoPoints == <<>>

MorphIdle ==
    /\ mstart = Polygon(<<>>, 0)
    /\ mend = Polygon(<<>>, 0)
    /\ morph = NoMorph
    /\ mprogress = Zero
    /\ mout = NoPoints

\* No answer of PolygonDraw's animate yet.
NoDraw == <<>>

DrawIdle == dpolygon = Polygon(<<>>, 0) /\ dprogress = Zero /\ dout = NoDraw

\* No frame with a worker, no result written, nothing encoded.
NoSlots == <<>>

RenderIdle == working = {} /\ slots = NoSlots /\ encoded = <<>>

RangeInit ==
    /\ rstart \in RangeTimes
    /\ rend \in RangeTimes
    /\ rfps \in RangeFps
    /\ rout = NoRange
    /\ ContainerIdle
    /\ TimelineIdle
    /\ EntityIdle
    /\ MorphIdle
    /\ DrawIdle
    /\ RenderIdle

\* The call frame_range(rstart, rend, rfps).
RangeCall ==
    /\ rout = NoRange
    /\ rout' = frame_range(rstart, rend, rfps)
    /\ UNCHANGED <<rstart, rend, rfps>>
    /\ UNCHANGED exceptRange

SpecRange == RangeInit /\ [][RangeCall]_vars

\* Every frame index a window of RangeTimes can reach at a rate of RangeFps.
RangeUniverse == 0 .. (ExactCeil(rend, rfps) + 2)

\* The frame indices whose sampled time i / fps lies in [rstart, rend).
InWindow == {i \in RangeUniverse : TimeGe(i, rfps, rstart) /\ TimeLt(i, rfps, rend)}

C3_AsStated ==
    rout # NoRange =>
        /\ rout = <<ExactFloor(rstart, rfps), ExactCeil(rend, rfps)>>
        /\ F32Lt(rend, rstart) => RangeIndices(rout) = {}

(***************************************************************************)
(* The Renderer's caller: it sets the frame rate, adds objects and         *)
(* animated objects to the timeline, then calls render, which compiles the *)
(* frames and renders each of them.                                        *)
(***************************************************************************)
\* The frame rates a caller sets.
TimelineFps == {1, DefaultFps}

\* The z-indexes of the objects.
ZIndexes == {0, 1}

\* The animated objects a caller adds, <<enter, exit, z-index>>, a window
\* being <<start, end>>: one that enters over [0,1) and exits over [2,3), one
\* whose enter and exit take no time, and one whose enter outlasts its exit.
Entities ==
    { << <<Zero, One>>, <<Dyadic(2, 0), Dyadic(3, 0)>>, 0 >>,
      << <<Dyadic(1, 1), Dyadic(1, 1)>>, <<Dyadic(3, 1), Dyadic(3, 1)>>, 1 >>,
      << <<Zero, Dyadic(3, 0)>>, <<Dyadic(3, 1), Dyadic(3, 1)>>, 0 >> }

\* The k-th animated object of a timeline: object 10 + k, brought in by
\* animation 2k - 1 and taken out by animation 2k.
Entity(k, entity) ==
    [object |-> [id |-> 10 + k, z |-> entity[3]],
     enter |-> [animation |-> Evaluator(2 * k - 1, entity[3]),
                start |-> entity[1][1], end |-> entity[1][2]],
     exit |-> [animation |-> Evaluator(2 * k, entity[3]),
               start |-> entity[2][1], end |-> entity[2][2]]]

Init ==
    /\ TimelineIdle
    /\ ContainerIdle
    /\ RangeIdle
    /\ EntityIdle
    /\ MorphIdle
    /\ DrawIdle
    /\ RenderIdle

\* Renderer::set_fps.
SetFps ==
    /\ pc = "build"
    /\ \E f \in TimelineFps \ {fps} : fps' = f
    /\ UNCHANGED <<timeline, frames, docs, pc>>
    /\ UNCHANGED exceptTimeline

\* Timeline::add_object.
AddObject ==
    /\ pc = "build"
    /\ Len(timeline.objects) < MaxObjects
    /\ \E z \in ZIndexes :
          timeline' = add_object(timeline,
                                 [id |-> Len(timeline.objects) + 1, z |-> z])
    /\ UNCHANGED <<fps, frames, docs, pc>>
    /\ UNCHANGED exceptTimeline

\* Timeline::add_animation.
AddAnimation ==
    /\ pc = "build"
    /\ Len(timeline.animations) < MaxAnimations
    /\ \E entity \in Entities :
          timeline' = add_animation(timeline,
                          Entity(Len(timeline.animations) + 1, entity))
    /\ UNCHANGED <<fps, frames, docs, pc>>
    /\ UNCHANGED exceptTimeline

\* What render goes on with once calc_frames has come to result.
Returned(result) ==
    IF result.panicked
    THEN pc' = "panic" /\ frames' = frames
    ELSE pc' = "frames" /\ frames' = result.frames

\* Renderer::render, up to the frames calc_frames returns or its panic.
CalcFrames ==
    /\ pc = "build"
    /\ Returned(calc_frames(timeline, fps))
    /\ UNCHANGED <<timeline, fps, docs>>
    /\ UNCHANGED exceptTimeline

\* Renderer::render, from there: render_frame of every frame, collected in
\* the frames' order.
RenderFrames ==
    /\ pc = "frames"
    /\ docs' = [n \in DOMAIN frames |-> render_frame(frames[n])]
    /\ pc' = "rendered"
    /\ UNCHANGED <<timeline, fps, frames>>
    /\ UNCHANGED exceptTimeline

Next ==
    \/ SetFps
    \/ AddObject
    \/ AddAnimation
    \/ CalcFrames
    \/ RenderFrames

Spec == Init /\ [][Next]_vars

Compiled == pc \in {"frames", "rendered"}

\* Frame index i of the compiled frames.
FrameAt(i) == frames[i + 1]

FrameIndexes == 0 .. (Len(frames) - 1)

\* C1: at fps = 1, one animated object with enter = [0,1) and exit = [2,3)
\* compiles to frames at times 0, 1, 2 and the pad frames; frame 0 has only the
\* enter animation, frame 1 only the object itself, as a plain object, frame 2
\* only the exit animation, and the pad frames have nothing of it.
C1_Scenario ==
    /\ Compiled
    /\ fps = 1
    /\ Len(timeline.animations) = 1
    /\ timeline.animations[1].enter.start = Zero
    /\ timeline.animations[1].enter.end = One
    /\ timeline.animations[1].exit.start = Dyadic(2, 0)
    /\ timeline.animations[1].exit.end = Dyadic(3, 0)

C1_EnterSteadyExit ==
    C1_Scenario =>
        LET it == timeline.animations[1]
        IN  /\ Len(frames) = 3 + PadFrames
            /\ FrameAt(0).time = Zero
            /\ FrameAt(0).animations = <<it.enter>>
            /\ FrameAt(0).objects = timeline.objects
            /\ FrameAt(1).time = One
            /\ FrameAt(1).animations = <<>>
            /\ FrameAt(1).objects = Append(timeline.objects, render(it.object))
            /\ FrameAt(2).time = Dyadic(2, 0)
            /\ FrameAt(2).animations = <<it.exit>>
            /\ FrameAt(2).objects = timeline.objects
            /\ \A i \in 3 .. (Len(frames) - 1) :
                  /\ FrameAt(i).animations = <<>>
                  /\ FrameAt(i).objects = timeline.objects

\* The scenario of C1, compiled and rendered.
C1_Witness == C1_Scenario /\ pc = "rendered" /\ Len(docs) = 3 + PadFrames

\* The largest exit.end of the timeline's animated objects, 0 when it has none.
LatestExit ==
    IF timeline.animations = <<>> THEN Zero
    ELSE CHOOSE t \in {timeline.animations[k].exit.end :
                          k \in DOMAIN timeline.animations} :
             \A k \in DOMAIN timeline.animations :
                 F32Le(timeline.animations[k].exit.end, t)

\* time is i / fps, to the precision of two f32 roundings.
IsFrameTime(time, i) ==
    /\ IsNum(time)
    /\ Abs(Num(time) * fps - i * Den(time)) <= (i * Den(time)) \div Pow2(22)

\* C4: calc_frames makes ceil(end_time * fps) + PadFrames frames, end_time being
\* the largest exit.end of the animated objects and 0 when there are none;
\* frame i has time i / fps (as f32) and the frames come in index order.
C4_FrameCount ==
    Compiled =>
        /\ Len(frames) = ExactCeil(LatestExit, fps) + PadFrames
        /\ timeline.animations = <<>> => Len(frames) = PadFrames
        /\ \A i \in FrameIndexes : IsFrameTime(FrameAt(i).time, i)
        /\ \A i \in FrameIndexes :
              i > 0 => F32Lt(FrameAt(i - 1).time, FrameAt(i).time)

\* Frames compiled from two animated objects of which the first exits last.
C4_Witness ==
    /\ Compiled
    /\ Len(timeline.animations) = 2
    /\ F32Lt(timeline.animations[2].exit.end, timeline.animations[1].exit.end)
    /\ Len(frames) = ExactCeil(timeline.animations[1].exit.end, fps) + PadFrames

\* The windows of the animated objects from the k-th on, in frame indices.
RECURSIVE WindowsFrom(_)
WindowsFrom(k) ==
    IF k > Len(timeline.animations) THEN <<>>
    ELSE LET it == timeline.animations[k]
         IN  <<[enter |-> frame_range(it.enter.start, it.enter.end, fps),
                exit |-> frame_range(it.exit.start, it.exit.end, fps),
                steady |-> frame_range(it.enter.end, it.exit.start, fps)]>>
                 \o WindowsFrom(k + 1)

\* The steady objects frame i holds, from animated object k on.
RECURSIVE SteadyOn(_, _, _)
SteadyOn(windows, i, k) ==
    IF k > Len(timeline.animations) THEN <<>>
    ELSE (IF i \in RangeIndices(windows[k].steady)
          THEN <<render(timeline.animations[k].object)>> ELSE <<>>)
             \o SteadyOn(windows, i, k + 1)

\* The animations active on frame i, from animated object k on.
RECURSIVE HandlesOn(_, _, _)
HandlesOn(windows, i, k) ==
    IF k > Len(timeline.animations) THEN <<>>
    ELSE (IF i \in RangeIndices(windows[k].enter)
          THEN <<timeline.animations[k].enter>> ELSE <<>>)
             \o (IF i \in RangeIndices(windows[k].exit)
                 THEN <<timeline.animations[k].exit>> ELSE <<>>)
             \o HandlesOn(windows, i, k + 1)

Emitted(i) ==
    FrameAt(i).objects \o
        [k \in DOMAIN FrameAt(i).animations |->
            animate(FrameAt(i).animations[k], FrameAt(i).time)]

\* The elements of a sequence that have z-index z, in the sequence's order.
WithKey(s, z) == SelectSeq(s, LAMBDA x : x[1] = z)

\* C6: the document of a frame holds the frame's objects and what its
\* animations answer in ascending z-index order, and those of one z-index in
\* the order objects-as-added, then animations-as-registered.
C6_SortedStable ==
    pc = "rendered" =>
        \A i \in FrameIndexes :
            LET doc == docs[i + 1]
                emitted == Emitted(i)
            IN  /\ Len(doc) = Len(emitted)
                /\ \A a, b \in DOMAIN doc : a < b => doc[a][1] <= doc[b][1]
                /\ \A z \in ZIndexes : WithKey(doc, z) = WithKey(emitted, z)

\* A rendered frame whose elements were not in z-index order and of which two
\* different ones have the same z-index.
C6_Witness ==
    /\ pc = "rendered"
    /\ \E i \in FrameIndexes :
          /\ docs[i + 1] # Emitted(i)
          /\ \E a, b \in DOMAIN docs[i + 1] :
                /\ a < b
                /\ docs[i + 1][a][1] = docs[i + 1][b][1]
                /\ docs[i + 1][a] # docs[i + 1][b]

\* C7, as stated: an animation with end = start is evaluated at progress 1.0
\* on every frame that has it.
C7_AsStated ==
    pc = "rendered" =>
        \A i \in FrameIndexes :
            \A k \in DOMAIN FrameAt(i).animations :
                LET handle == FrameAt(i).animations[k]
                IN  handle.start = handle.end =>
                        \E a \in DOMAIN docs[i + 1] :
                            docs[i + 1][a] =
                                <<handle.animation.z,
                                  <<"animation", handle.animation.id, One>>>>

(***************************************************************************)
(* The combinators and animate, called one after the other on the caller's *)
(* container.  A caller goes on while the container's times are times of   *)
(* the model.                                                              *)
(***************************************************************************)
InTimes(c) == c.start \in Times /\ c.end \in Times

\* What a call leaves behind besides its result.
Record(name, d, other, node) ==
    /\ cprev' = container
    /\ cnode' = node
    /\ cop' = name
    /\ carg' = d
    /\ cother' = other
    /\ UNCHANGED exceptContainer

Duration ==
    /\ InTimes(container)
    /\ \E d \in Times :
          /\ container' = duration(container, d)
          /\ Record("duration", d, container, NoNode)

DurationKeepEnd ==
    /\ InTimes(container)
    /\ \E d \in Times :
          /\ container' = duration_keep_end(container, d)
          /\ Record("duration_keep_end", d, container, NoNode)

Delay ==
    /\ InTimes(container)
    /\ \E d \in Times :
          /\ container' = delay(container, d)
          /\ Record("delay", d, container, NoNode)

After ==
    /\ InTimes(container)
    /\ \E other \in Containers :
          /\ container' = after(container, other)
          /\ Record("after", Zero, other, NoNode)

StartWith ==
    /\ InTimes(container)
    /\ \E other \in Containers :
          /\ container' = start_with(container, other)
          /\ Record("start_with", Zero, other, NoNode)

EndWith ==
    /\ InTimes(container)
    /\ \E other \in Containers :
          /\ container' = end_with(container, other)
          /\ Record("end_with", Zero, other, NoNode)

Synchronize ==
    /\ InTimes(container)
    /\ \E other \in Containers :
          /\ container' = synchronize(container, other)
          /\ Record("synchronize", Zero, other, NoNode)

\* AnimationContainer::animate at a time of the model.
Animate ==
    /\ InTimes(container)
    /\ \E time \in Times :
          /\ Record("animate", time, container, animate(container, time))
    /\ UNCHANGED container

ContainerInit ==
    /\ ContainerIdle
    /\ RangeIdle
    /\ TimelineIdle
    /\ EntityIdle
    /\ MorphIdle
    /\ DrawIdle
    /\ RenderIdle

ContainerNext ==
    \/ Duration
    \/ DurationKeepEnd
    \/ Delay
    \/ After
    \/ StartWith
    \/ EndWith
    \/ Synchronize
    \/ Animate

SpecContainer == ContainerInit /\ [][ContainerNext]_vars

\* The progress the evaluator was handed by the last call of animate.
Progress == cnode[2][3]

\* p is the f32 nearest to n / d, for finite n >= 0 and d > 0.
IsQuotient(p, n, d) ==
    /\ IsNum(p)
    /\ Abs(Num(p) * Num(d) * Den(n) - Num(n) * Den(d) * Den(p))
          <= (Num(n) * Den(d) * Den(p)) \div Pow2(MantissaBits)

\* C8: for a container with start < end, animate hands the evaluator a
\* progress in [0,1]: 0 when time < start, 1 when time > end, and
\* (time - start) / (end - start), as f32, in between.
C8_ProgressClamped ==
    (cop = "animate" /\ F32Lt(container.start, container.end)) =>
        /\ IsNum(Progress)
        /\ F32Le(Zero, Progress) /\ F32Le(Progress, One)
        /\ F32Lt(carg, container.start) => Progress = Zero
        /\ F32Lt(container.end, carg) => Progress = One
        /\ (F32Le(container.start, carg) /\ F32Le(carg, container.end)) =>
              IsQuotient(Progress, F32Sub(carg, container.start),
                         F32Sub(container.end, container.start))
        /\ cnode = <<container.animation.z,
                     <<"animation", container.animation.id, Progress>>>>

\* animate called before, strictly inside and after a window with start < end.
C8_Witness ==
    /\ cop = "animate"
    /\ F32Lt(container.start, container.end)
    /\ F32Lt(container.start, carg) /\ F32Lt(carg, container.end)
    /\ F32Lt(Zero, Progress) /\ F32Lt(Progress, One)
    /\ Progress.m > 1

\* end - start, as the program computes it.
Length(c) == F32Sub(c.end, c.start)

\* x = y + z exactly, for finite f32 values.
ExactSum(x, y, z) ==
    Num(x) * Den(y) * Den(z) = (Num(y) * Den(z) + Num(z) * Den(y)) * Den(x)

\* C9: b.after(&a) starts at a.end and lasts as long as b did before the
\* call; a = [0,2), b = [0,1) gives [2,3).
C9_AfterKeepsDuration ==
    cop = "after" =>
        /\ container.start = cother.end
        /\ ExactSum(container.end, container.start, Length(cprev))
        /\ Length(container) = Length(cprev)
        /\ container.animation = cprev.animation
        /\ (cprev.start = Zero /\ cprev.end = One /\ cother.end = Dyadic(2, 0))
              => (container.start = Dyadic(2, 0) /\ container.end = Dyadic(3, 0))

\* The scenario of C9: b = [0,1) placed after a = [0,2).
C9_Witness ==
    /\ cop = "after"
    /\ cprev.start = Zero /\ cprev.end = One
    /\ cother.start = Zero /\ cother.end = Dyadic(2, 0)
    /\ container.end = Dyadic(3, 0)

\* C10: duration(d) keeps the start and sets end = start + d; duration_keep_end(d)
\* keeps the end and sets start = end - d; either way the duration is d.
C10_DurationIsD ==
    /\ cop = "duration" =>
          /\ container.start = cprev.start
          /\ ExactSum(container.end, cprev.start, carg)
          /\ Length(container) = carg
    /\ cop = "duration_keep_end" =>
          /\ container.end = cprev.end
          /\ ExactSum(cprev.end, container.start, carg)
          /\ Length(container) = carg

\* One of the two calls made on a container that starts after 0, with d > 0.
C10_Witness ==
    /\ cop \in {"duration", "duration_keep_end"}
    /\ F32Lt(Zero, cprev.start)
    /\ F32Lt(Zero, carg)
    /\ container # cprev

(***************************************************************************)
(* A caller builds an AnimatedObject (its fields are public) and calls     *)
(* lifetime on it.                                                         *)
(***************************************************************************)
\* The AnimatedObjects a caller builds: object 11 behind evaluators 1 and 2,
\* every window with its ends among the times of the model.
AnimatedObjects ==
    {[object |-> [id |-> 11, z |-> 0],
      enter |-> [animation |-> Evaluator(1, 0), start |-> es, end |-> ee],
      exit |-> [animation |-> Evaluator(2, 0), start |-> xs, end |-> xe]] :
        es \in Times, ee \in Times, xs \in Times, xe \in Times}

EntityInit ==
    /\ animated \in AnimatedObjects
    /\ aprev = animated
    /\ aop = "new"
    /\ aarg = Zero
    /\ TimelineIdle
    /\ ContainerIdle
    /\ RangeIdle
    /\ MorphIdle
    /\ DrawIdle
    /\ RenderIdle

\* AnimatedObject::lifetime.
Lifetime ==
    /\ aop = "new"
    /\ \E d \in Times :
          /\ animated' = lifetime(animated, d)
          /\ aarg' = d
    /\ aprev' = animated
    /\ aop' = "lifetime"
    /\ UNCHANGED exceptEntity

SpecEntity == EntityInit /\ [][Lifetime]_vars

\* C11: lifetime(d) puts exit.start at enter.end + d and exit.end at the new
\* exit.start plus the length the exit had before the call; the enter
\* window, the object and both evaluators stay as they were.
C11_LifetimeKeepsExitLength ==
    aop = "lifetime" =>
        /\ ExactSum(animated.exit.start, aprev.enter.end, aarg)
        /\ ExactSum(animated.exit.end, animated.exit.start, Length(aprev.exit))
        /\ Length(animated.exit) = Length(aprev.exit)
        /\ animated.enter = aprev.enter
        /\ animated.object = aprev.object
        /\ animated.exit.animation = aprev.exit.animation

\* lifetime called with d > 0 on an object whose exit did not start d after
\* the end of its enter, and took time.
C11_Witness ==
    /\ aop = "lifetime"
    /\ F32Lt(Zero, aarg)
    /\ animated.exit.start # aprev.exit.start
    /\ F32Lt(aprev.exit.start, aprev.exit.end)
    /\ animated.exit.end # aprev.exit.end

(***************************************************************************)
(* The caller of the combinators may also reverse the container.           *)
(***************************************************************************)
Reverse ==
    /\ InTimes(container)
    /\ container.animation.rev < MaxReverse
    /\ container' = reverse(container)
    /\ Record("reverse", Zero, container, NoNode)

ReverseNext == ContainerNext \/ Reverse

SpecReverse == ContainerInit /\ [][ReverseNext]_vars

\* The progresses 0.0, 0.25, 0.5, 0.75, 1.0.
Quarters == {Dyadic(k, 2) : k \in 0 .. 4}

\* The progress the evaluator at the bottom of the wrappers is asked for.
Asked(animation, p) == animation_animate(animation, p)[2][3]

\* C12: reverse() keeps start and end and makes the evaluator answer progress
\* p with what it answered 1 - p before; reversed twice, a container answers
\* every progress in {0, 0.25, 0.5, 0.75, 1} as it did before, and animate
\* asks the evaluator for the progress it computed.
C12_ReverseDelegates ==
    /\ cop = "reverse" =>
          /\ container.start = cprev.start
          /\ container.end = cprev.end
          /\ \A p \in Quarters :
                /\ animation_animate(container.animation, p)
                      = animation_animate(cprev.animation, F32Sub(One, p))
                /\ Asked(container.animation, p)
                      = Asked(TheAnimation,
                              IF container.animation.rev % 2 = 1
                              THEN F32Sub(One, p) ELSE p)
                /\ animation_animate(reverse(container).animation, p)
                      = animation_animate(cprev.animation, p)
    /\ (cop = "animate" /\ container.animation.rev = 2
           /\ progress_at(container, carg) \in Quarters) =>
          cnode = animate([container EXCEPT !.animation = TheAnimation], carg)

\* A container reversed twice is asked for the frame at a quarter of its
\* window, and its evaluator for progress 0.25.
C12_Witness ==
    /\ cop = "animate"
    /\ container.animation.rev = 2
    /\ progress_at(container, carg) = Dyadic(1, 2)
    /\ Progress = Dyadic(1, 2)

\* C13: start_with(other) moves only the start, to other.start; end_with(other)
\* moves only the end, to other.end; synchronize(other) takes both ends from
\* other; the evaluator stays the container's own, and other, which is only
\* borrowed, is one of the containers the caller lent, as it was.
C13_CopiesNamedEnds ==
    /\ cop = "start_with" =>
          /\ container.start = cother.start
          /\ container.end = cprev.end
    /\ cop = "end_with" =>
          /\ container.end = cother.end
          /\ container.start = cprev.start
    /\ cop = "synchronize" =>
          /\ container.start = cother.start
          /\ container.end = cother.end
    /\ cop \in {"start_with", "end_with", "synchronize"} =>
          /\ container.animation = cprev.animation
          /\ cother \in Containers
          /\ cother.animation # container.animation

\* start_with on a container of another start and another length than the
\* one it borrows.
C13_Witness ==
    /\ cop = "start_with"
    /\ cprev.start # cother.start
    /\ Length(cprev) # Length(container)
    /\ container.end # cother.end

(***************************************************************************)
(* A caller makes a PolygonMorph of two polygons and asks it for the       *)
(* polygon at a progress.                                                  *)
(***************************************************************************)
\* The point lists of the model: no point, one point, a line, two
\* triangles, a square and a pentagon with a point in the middle of a side.
BaseShapes ==
    { <<>>,
      <<Point(1, 1)>>,
      <<Point(0, 0), Point(2, 0)>>,
      <<Point(0, 0), Point(2, 0), Point(0, 2)>>,
      <<Point(1, 1), Point(3, 2), Point(2, 3)>>,
      <<Point(0, 0), Point(2, 0), Point(2, 2), Point(0, 2)>>,
      <<Point(0, 0), Point(2, 0), Point(2, 1), Point(2, 2), Point(0, 2)>> }

\* The same points from point r on, and in the other direction.
Rotated(points, r) ==
    [k \in DOMAIN points |-> points[((k + r - 1) % Len(points)) + 1]]

Reversed(points) == [k \in DOMAIN points |-> points[Len(points) + 1 - k]]

Shapes ==
    UNION {{Rotated(s, r), Reversed(Rotated(s, r))} : 
              r \in 0 .. 1, s \in BaseShapes}

MorphInit ==
    /\ mstart \in {Polygon(s, 0) : s \in Shapes}
    /\ mend \in {Polygon(s, 0) : s \in Shapes}
    /\ morph = NoMorph
    /\ mprogress = Zero
    /\ mout = NoPoints
    /\ TimelineIdle
    /\ ContainerIdle
    /\ RangeIdle
    /\ EntityIdle
    /\ DrawIdle
    /\ RenderIdle

\* PolygonMorph::new.
MorphNew ==
    /\ morph = NoMorph
    /\ \E nearest \in Answers(ShorterOf(mstart.points, mend.points),
                              LongerOf(mstart.points, mend.points)) :
          morph' = PolygonMorph_new(mstart, mend, nearest)
    /\ UNCHANGED <<mstart, mend, mprogress, mout>>
    /\ UNCHANGED exceptMorph

\* PolygonMorph::animate at the start, the middle and the end.
MorphAnimate ==
    /\ morph # NoMorph
    /\ ~morph.panicked
    /\ mout = NoPoints
    /\ \E progress \in {Zero, Dyadic(1, 1), One} :
          /\ mprogress' = progress
          /\ mout' = PolygonMorph_animate(morph, progress)
    /\ UNCHANGED <<mstart, mend, morph>>
    /\ UNCHANGED exceptMorph

MorphNext == MorphNew \/ MorphAnimate

SpecMorph == MorphInit /\ [][MorphNext]_vars

\* The point counts m and n of the two polygons, and whether a morph was made.
StartCount == Len(mstart.points)

EndCount == Len(mend.points)

MorphMade == morph # NoMorph /\ ~morph.panicked

\* C14: of two polygons with m >= 1 and n >= 1 points, in either order,
\* PolygonMorph::new makes start_points and end_points of max(m, n) points
\* each; when m = n they are the polygons' own points, index by index.
C14_EqualLengths ==
    (morph # NoMorph /\ StartCount >= 1 /\ EndCount >= 1) =>
        /\ ~morph.panicked
        /\ Len(morph.start_points) = Max(StartCount, EndCount)
        /\ Len(morph.end_points) = Max(StartCount, EndCount)
        /\ StartCount = EndCount =>
              /\ morph.start_points = mstart.points
              /\ morph.end_points = mend.points

\* A morph from a square to a triangle: two sequences of four points.
C14_Witness ==
    /\ MorphMade
    /\ StartCount = 4 /\ EndCount = 3
    /\ Len(morph.start_points) = 4 /\ Len(morph.end_points) = 4

\* The shorter and the longer point list of the morph, and the indices of
\* the longer one's points the first loop claimed.
Shorter == ShorterOf(mstart.points, mend.points)

Longer == LongerOf(mstart.points, mend.points)

AnchorIndices == Firsts(Anchored(Shorter, Longer)[1])

\* The points of the answer of animate at the slots of the anchors.
RECURSIVE AtAnchors(_, _, _)
AtAnchors(points, indices, k) ==
    IF k > Len(points) THEN <<>>
    ELSE (IF \E a \in DOMAIN AnchorIndices : AnchorIndices[a] = indices[k]
          THEN <<points[k]>> ELSE <<>>)
             \o AtAnchors(points, indices, k + 1)

\* points is the polygon's points from one of them on, in their order or in
\* the opposite one.
IsCyclicOrder(points, polygon) ==
    /\ Len(points) = Len(polygon)
    /\ \E r \in DOMAIN polygon :
          \/ points = Rotated(polygon, r)
          \/ points = Rotated(Reversed(polygon), r)

\* C15, as stated: the morph from a shorter polygon S to a longer polygon L
\* answers, at progress 0, S's vertices in their order (with the extra points
\* between them), and at progress 1 the polygon L: L's vertices in L's cyclic
\* order (read here in either direction from any vertex: the same outline).
\* That an extra point lies on an edge of S is left out: it holds up to the
\* rounding of the projection.
C15_AsStated ==
    (MorphMade /\ mout # NoPoints /\ 1 <= StartCount /\ StartCount < EndCount) =>
        /\ mprogress = Zero =>
              AtAnchors(mout[2], morph.indices, 1) = mstart.points
        /\ mprogress = One => IsCyclicOrder(mout[2], mend.points)

\* C16, as stated: of a polygon without points and another polygon,
\* PolygonMorph::new makes no morph and does not panic: it answers an error.
C16_AsStated ==
    (morph # NoMorph /\ (StartCount = 0 \/ EndCount = 0)) =>
        /\ ~morph.panicked
        /\ ~MorphMade

\* C19: create_missing_points claims no point of the longer polygon twice:
\* the anchors are as many different indices as the shorter polygon has
\* points, every other index is in the segment of exactly one line, and the
\* longer polygon's side of the morph is its own points, each once, in the
\* order of the indices.
C19_IndicesArePermutation ==
    (MorphMade /\ StartCount # EndCount) =>
        /\ Len(AnchorIndices) = Len(Shorter)
        /\ \A a, b \in DOMAIN AnchorIndices :
              AnchorIndices[a] = AnchorIndices[b] => a = b
        /\ Len(morph.indices) = Len(Longer)
        /\ \A i \in 0 .. Len(Longer) - 1 :
              Cardinality({k \in DOMAIN morph.indices : morph.indices[k] = i})
                  = 1
        /\ LET side == IF StartCount < EndCount THEN morph.end_points
                       ELSE morph.start_points
           IN  side = [k \in DOMAIN morph.indices |->
                          Longer[morph.indices[k] + 1]]

\* A triangle and a pentagon: three anchors, two points cast to lines, and
\* the pentagon's points not in the order they had.
C19_Witness ==
    /\ MorphMade
    /\ StartCount = 3 /\ EndCount = 5
    /\ morph.end_points # mend.points
    /\ Cardinality({morph.indices[k] : k \in DOMAIN morph.indices}) = 5

\* The polygons PolygonDraw is tried on have up to MaxDrawPoints points.
MaxDrawPoints == 6

\* The first k points of (0,0), (1,1), (2,4), (3,4), (4,1), (5,0), ...
DrawPoints(k) == [i \in 1 .. k |-> Point(i - 1, ((i - 1) * (i - 1)) % 5)]

\* The progresses it is tried on: the eighths, 13981013 / 2^24 (the f32 just
\* under 5/6) and the f32 just under 1.
Progresses ==
    {Dyadic(i, 3) : i \in 0 .. 8}
        \cup {Dyadic(13981013, MantissaBits), Dyadic(16777215, MantissaBits)}

DrawInit ==
    /\ dpolygon \in {Polygon(DrawPoints(k), z) :
                        k \in 0 .. MaxDrawPoints, z \in 0 .. 1}
    /\ dprogress = Zero
    /\ dout = NoDraw
    /\ TimelineIdle
    /\ ContainerIdle
    /\ RangeIdle
    /\ EntityIdle
    /\ MorphIdle
    /\ RenderIdle

\* PolygonDraw::animate.
Draw ==
    /\ dout = NoDraw
    /\ \E progress \in Progresses :
          /\ dprogress' = progress
          /\ dout' = PolygonDraw_animate(dpolygon, progress)
    /\ UNCHANGED dpolygon
    /\ UNCHANGED exceptDraw

SpecDraw == DrawInit /\ [][Draw]_vars

\* k and the f32 product k * p of the call of animate.
DrawCount == Len(dpolygon.points)

DrawProduct == F32Mul(F32FromInt(DrawCount), dprogress)

\* floor and frac of a positive f32.
WholePart(q) == Num(q) \div Den(q)

FracPart(q) == IF q.e >= 0 THEN Zero ELSE F32Round(q.m % Pow2(-q.e), q.e)

\* C17: for a polygon of k >= 1 points and a progress p in [0, 1),
\* PolygonDraw answers the open polyline of the first floor(k * p) + 1 points
\* and the point frac(k * p) of the way from point floor(k * p) to the next
\* (the first after the last), floor and frac being those of the f32 product
\* k * p; it takes no point past the list; at p = 1 it answers the polygon.
C17_DrawsPolyline ==
    (dout # NoDraw /\ DrawCount >= 1) =>
        /\ dout.kind # "panic"
        /\ dprogress = One =>
              dout.kind = "polygon" /\ dout.points = dpolygon.points
        /\ dprogress # One =>
              /\ dout.kind = "group"
              /\ WholePart(DrawProduct) < DrawCount
              /\ Len(dout.polyline) = WholePart(DrawProduct) + 2
              /\ \A i \in 1 .. WholePart(DrawProduct) + 1 :
                    dout.polyline[i] = dpolygon.points[i]
              /\ dout.polyline[Len(dout.polyline)]
                    = PartialPoint(
                          dpolygon.points[WholePart(DrawProduct) + 1],
                          dpolygon.points[((WholePart(DrawProduct) + 1)
                                              % DrawCount) + 1],
                          FracPart(DrawProduct))

\* Four points at 7/8: all four and the point half the way back to the first.
C17_Witness ==
    /\ dout # NoDraw
    /\ DrawCount = 4
    /\ dprogress = Dyadic(7, 3)
    /\ dout.kind = "group"
    /\ dout.polyline =
          <<Point(0, 0), Point(1, 1), Point(2, 4), Point(3, 4),
            <<Dyadic(3, 1), F32FromInt(2)>> >>

\* floor(k * p) of the product of k and p as it is, not rounded.
ExactWhole == (DrawCount * Num(dprogress)) \div Den(dprogress)

\* C17, as stated: the polyline has the first floor(k * p) + 1 points and one
\* point more, floor being that of the product k * p itself.
C17_AsStated ==
    (dout # NoDraw /\ DrawCount >= 1 /\ dprogress # One) =>
        /\ dout.kind = "group"
        /\ Len(dout.polyline) = ExactWhole + 2
        /\ \A i \in 1 .. ExactWhole + 1 :
              dout.polyline[i] = dpolygon.points[i]

\* The frame indexes calc_frames writes to for an animated object: those of
\* its enter window, of its exit window and of the window between them.
WrittenIndexes(animated_object) ==
    RangeIndices(enter_range(animated_object, fps))
        \cup RangeIndices(exit_range(animated_object, fps))
        \cup RangeIndices(steady_range(animated_object, fps))

\* C20, as stated: calc_frames writes only to frame indexes below
\* frame_count = ceil(max exit.end * fps) + pad, whatever the windows of the
\* animated objects are, and never fails with an index out of range.
C20_AsStated ==
    pc # "build" =>
        /\ pc # "panic"
        /\ \A k \in DOMAIN timeline.animations :
              \A index \in WrittenIndexes(timeline.animations[k]) :
                  index < frame_count_of(timeline, fps)

\* The workers that render the frames at a time.
MaxWorkers == 2

\* The place in the collected vector of the result a worker writes, were it
\* the next free one: written results are already there.
collect_by_completion(index, written) == written + 1

\* collect of the indexed parallel iterator: the result of the frame with
\* index `index` is element index of the vector, in whatever order the
\* workers come to write.
collect_position(index, written) == index + 1

\* No result written at a place yet.
NoResult == <<>>

\* The timelines rendered: an object above, and an animated object below it
\* that enters over [0, 0.5) and exits over [0.5, 1), or one that enters over
\* [0, 1) and is gone at 1.
RenderTimelines ==
    {add_animation(add_object(EmptyTimeline, [id |-> 1, z |-> 1]),
                   Entity(1, entity)) :
        entity \in { << <<Zero, Dyadic(1, 1)>>, <<Dyadic(1, 1), One>>, 0 >>,
                     << <<Zero, One>>, <<One, One>>, 0 >> }}

\* Renderer::render has called calc_frames and is about to render.
RenderInit ==
    /\ timeline \in RenderTimelines
    /\ fps = 1
    /\ frames = calc_frames(timeline, fps).frames
    /\ docs = <<>>
    /\ pc = "frames"
    /\ working = {}
    /\ slots = [n \in 1 .. frame_count_of(timeline, fps) |-> NoResult]
    /\ encoded = <<>>
    /\ ContainerIdle
    /\ RangeIdle
    /\ EntityIdle
    /\ MorphIdle
    /\ DrawIdle

\* The indexes of the frames whose result is written.
Written == {slots[n][1] : n \in {n \in DOMAIN slots : slots[n] # NoResult}}

\* A worker takes a frame no worker has taken: into_par_iter gives every
\* element of the vector to one call of the closure.
TakeFrame ==
    /\ pc = "frames"
    /\ Cardinality(working) < MaxWorkers
    /\ \E index \in FrameIndexes \ (working \cup Written) :
          working' = working \cup {index}
    /\ UNCHANGED <<slots, encoded>>
    /\ UNCHANGED timelineVars
    /\ UNCHANGED exceptRender

\* A worker comes to the end of the closure: render_frame (and render_svg)
\* of its frame, written into the vector collect is filling.
FinishFrame ==
    /\ pc = "frames"
    /\ \E index \in working :
          /\ working' = working \ {index}
          /\ slots' =
                [slots EXCEPT
                    ![collect_position(index, Cardinality(Written))] =
                        <<index, render_frame(FrameAt(index))>>]
    /\ UNCHANGED encoded
    /\ UNCHANGED timelineVars
    /\ UNCHANGED exceptRender

\* collect returns once every frame is rendered.
Collect ==
    /\ pc = "frames"
    /\ working = {}
    /\ Written = FrameIndexes
    /\ docs' = [n \in DOMAIN slots |-> slots[n][2]]
    /\ pc' = "rendered"
    /\ UNCHANGED <<timeline, fps, frames>>
    /\ UNCHANGED renderVars
    /\ UNCHANGED exceptRender

\* One turn of the loop over the collected frames: encoder.encode.
Encode ==
    /\ pc = "rendered"
    /\ Len(encoded) < Len(docs)
    /\ encoded' = Append(encoded, docs[Len(encoded) + 1])
    /\ UNCHANGED <<working, slots>>
    /\ UNCHANGED timelineVars
    /\ UNCHANGED exceptRender

RenderNext ==
    \/ TakeFrame
    \/ FinishFrame
    \/ Collect
    \/ Encode

SpecRender == RenderInit /\ [][RenderNext]_vars

\* What a render of the frames one after the other hands to the encoder.
SequentialDocs == [n \in DOMAIN frames |-> render_frame(frames[n])]

\* How often the frame with an index is or was with a worker.
TimesRendered(index) ==
    Cardinality({n \in DOMAIN slots :
                    slots[n] # NoResult /\ slots[n][1] = index})
        + (IF index \in working THEN 1 ELSE 0)

\* C18: whatever the order in which the workers take and finish the frames,
\* no frame is rendered twice and, once collected, each was rendered once, a
\* result is render_frame of its own frame and is written at the place of
\* that frame's index, and the encoder is handed the results in the order of
\* the frames' indexes (that of their times): what a render of the frames one
\* after the other would hand it.
C18_EncodedInFrameOrder ==
    /\ \A index \in FrameIndexes : TimesRendered(index) <= 1
    /\ pc = "rendered" => \A index \in FrameIndexes : TimesRendered(index) = 1
    /\ \A n \in DOMAIN slots :
          slots[n] # NoResult =>
              /\ slots[n][1] = n - 1
              /\ slots[n][2] = render_frame(FrameAt(slots[n][1]))
    /\ encoded = SubSeq(SequentialDocs, 1, Len(encoded))
    /\ \A n \in 1 .. Len(encoded) :
          /\ slots[n][1] = n - 1
          /\ n > 1 => F32Lt(frames[n - 1].time, frames[n].time)

\* The workers are all at work, the first frame among theirs, and the last
\* frame's result, another document than the first frame's, is written.
C18_Witness ==
    /\ pc = "frames"
    /\ 0 \in working
    /\ Cardinality(working) = MaxWorkers
    /\ slots[1] = NoResult
    /\ slots[Len(slots)] # NoResult
    /\ slots[Len(slots)][2] # render_frame(FrameAt(0))

\* Whether x is an element of the sequence s.
Holds(s, x) == \E n \in DOMAIN s : s[n] = x

\* The frames calc_frames gave both the enter animation of an animated object
\* and, from its window [enter.end, exit.start), the object itself.
SharedFrames(animated_object) ==
    {i \in FrameIndexes :
        /\ Holds(FrameAt(i).animations, animated_object.enter)
        /\ Holds(FrameAt(i).objects, render(animated_object.object))}

\* Whether t * fps is a whole number, t and the product taken as they are.
OnFrame(t) == (Num(t) * fps) % Den(t) = 0

\* C21, as stated: of an animated object whose enter window [s, t) is followed
\* by its window [t, u) with s < t < u, no compiled frame has both the enter
\* animation and the object when t * fps is a whole number, and only frame
\* floor(t * fps) has both when it is not.
C21_AsStated ==
    Compiled =>
        \A k \in DOMAIN timeline.animations :
            (/\ F32Lt(timeline.animations[k].enter.start,
                      timeline.animations[k].enter.end)
             /\ F32Lt(timeline.animations[k].enter.end,
                      timeline.animations[k].exit.start)) =>
                SharedFrames(timeline.animations[k]) =
                    IF OnFrame(timeline.animations[k].enter.end) THEN {}
                    ELSE {ExactFloor(timeline.animations[k].enter.end, fps)}

\* The colours and the stroke widths of the polygons whose style is morphed.
FillColors == {Color(0, 0, 0, 0), rgb(255, 255, 255), Color(10, 101, 200, 128)}

OutlineColors == {rgb(100, 100, 100), rgb(255, 0, 1)}

StrokeWidths == {F32FromInt(10), F32FromInt(2)}

\* A triangle and a square in every such style; stroke_width is a public
\* field.
StyledPolygons ==
    {[outline(fill(Polygon(s, 0), f), o) EXCEPT !.stroke_width = w] :
        s \in {<<Point(0, 0), Point(2, 0), Point(0, 2)>>,
               <<Point(0, 0), Point(2, 0), Point(2, 2), Point(0, 2)>>},
        f \in FillColors, o \in OutlineColors, w \in StrokeWidths}

StyleInit ==
    /\ mstart \in StyledPolygons
    /\ mend \in StyledPolygons
    /\ morph = NoMorph
    /\ mprogress = Zero
    /\ mout = NoPoints
    /\ TimelineIdle
    /\ ContainerIdle
    /\ RangeIdle
    /\ EntityIdle
    /\ DrawIdle
    /\ RenderIdle

SpecStyle == StyleInit /\ [][MorphNext]_vars

\* start + (end - start) * p of two channels, rounded to the nearest whole
\* number (a half upwards), the sum and the product taken as they are.
NearestChannel(start, end, p) ==
    (2 * (start * Den(p) + (end - start) * Num(p)) + Den(p))
        \div (2 * Den(p))

\* The style of a polygon as its render shows it.
StyleOf(polygon) == Polygon_render(polygon)[3]

\* C22, as stated: the polygon PolygonMorph answers at progress p has every
\* channel of its fill and of its outline colour at start + (end - start) * p
\* rounded to the nearest whole number, and the stroke width
\* start.stroke_width + (end.stroke_width - start.stroke_width) * p; at p = 0
\* its style is the start polygon's and at p = 1 the end polygon's.
C22_AsStated ==
    (MorphMade /\ mout # NoPoints) =>
        /\ \A c \in 1 .. 4 :
              /\ mout[3].fill[c] =
                    NearestChannel(mstart.fill_color[c], mend.fill_color[c],
                                   mprogress)
              /\ mout[3].stroke[c] =
                    NearestChannel(mstart.outline_color[c],
                                   mend.outline_color[c], mprogress)
        /\ mout[3].stroke_width =
              Interpolated(mstart.stroke_width, mend.stroke_width, mprogress)
        /\ mprogress = Zero => mout[3] = StyleOf(mstart)
        /\ mprogress = One => mout[3] = StyleOf(mend)

=============================================================================
